---- MODULE Spec2Model ----
(***************************************************************************)
(* TimelineBridge (src/timeline_widget.py): the Qt WebChannel bridge        *)
(* between the host application and the embedded timeline page.            *)
(*                                                                         *)
(* One step of the model is one handler run to completion on the Qt event  *)
(* loop: a host call into the bridge, a slot called by the page, a         *)
(* zero-delay timer task, or one event of an evaluating call (its result   *)
(* callback, its timeout, the return of its nested event loop).            *)
(***************************************************************************)
EXTENDS Integers, Sequences, FiniteSets, TLC

(***************************************************************************)
(* Python values.  Every value is a record [kind, val]; kind is the Python *)
(* type and val its content: a number, a text, a sequence of values        *)
(* (list) or a function from keys to values (dict).  An int holds its      *)
(* value, a float its value in tenths (29.9 is PyFloat(299)).              *)
(***************************************************************************)
PyNone == [kind |-> "none", val |-> 0]
PyNum(n) == [kind |-> "num", val |-> n]
PyFloat(tenths) == [kind |-> "float", val |-> tenths]
PyStr(s) == [kind |-> "str", val |-> s]
PyBool(b) == [kind |-> "bool", val |-> b]
PyList(seq) == [kind |-> "list", val |-> seq]
PyDict(f) == [kind |-> "dict", val |-> f]
EmptyDict == PyDict(<<>>)
EmptyList == PyList(<<>>)
JsUndefined == [kind |-> "undefined", val |-> 0]

IsDict(v) == v.kind = "dict"
IsStr(v) == v.kind = "str"
IsList(v) == v.kind = "list"

\* Python truthiness, as used by `x or y`, `if x` and `a if x else b`.
Truthy(v) ==
  CASE v.kind = "none" -> FALSE
    [] v.kind = "num" -> v.val # 0
    [] v.kind = "float" -> v.val # 0
    [] v.kind = "bool" -> v.val
    [] v.kind = "str" -> v.val # ""
    [] v.kind = "list" -> Len(v.val) # 0
    [] v.kind = "dict" -> DOMAIN v.val # {}
    [] OTHER -> TRUE

\* int(x) of a number: the integer part, rounded towards zero
IntOf(x) ==
  CASE x.kind = "num" -> x.val
    [] x.kind = "float" -> IF x.val >= 0 THEN x.val \div 10 ELSE -((-x.val) \div 10)
    [] x.kind = "bool" -> IF x.val THEN 1 ELSE 0

\* float(x) of a number
FloatOf(x) ==
  CASE x.kind = "num" -> PyFloat(10 * x.val)
    [] x.kind = "float" -> x
    [] x.kind = "bool" -> PyFloat(IF x.val THEN 10 ELSE 0)

\* key in d, for a dict d
HasKey(d, k) == k \in DOMAIN d.val

\* d.get(k, default), for a dict d
DictGet(d, k, default) == IF HasKey(d, k) THEN d.val[k] ELSE default

\* d[k] = v on a copy of the dict d
DictSet(d, k, v) ==
  PyDict([x \in (DOMAIN d.val) \cup {k} |-> IF x = k THEN v ELSE d.val[x]])

\* TimelineBridge._convert_variant: rebuild lists and dicts, element by element.
RECURSIVE ConvertVariant(_)
ConvertVariant(value) ==
  IF IsList(value)
    THEN PyList([i \in 1..Len(value.val) |-> ConvertVariant(value.val[i])])
  ELSE IF IsDict(value)
    THEN PyDict([k \in DOMAIN value.val |-> ConvertVariant(value.val[k])])
  ELSE value

(***************************************************************************)
(* json.loads on the texts the page sends in this model.  A text that is   *)
(* not JSON makes json.loads raise JSONDecodeError: JsonValid is FALSE.    *)
(***************************************************************************)
TextEmptyObject == "{}"
TextState == "{\"layers\": [1], \"clips\": [1, 2]}"
TextList == "[1]"
TextEmptyList == "[]"
TextNumber == "5"
TextZero == "0"
TextNull == "null"
TextString == "\"abc\""
TextGarbage == "{not json"
TextEmpty == ""
TextClipNoPosition == "{\"id\": \"c1\", \"layer\": 1}"

JsonValid(text) == text \notin {TextGarbage, TextEmpty}

JsonLoads(text) ==
  CASE text = TextEmptyObject -> EmptyDict
    [] text = TextState ->
         PyDict([k \in {"layers", "clips"} |->
                   IF k = "layers" THEN PyList(<<PyNum(1)>>)
                                   ELSE PyList(<<PyNum(1), PyNum(2)>>)])
    [] text = TextClipNoPosition ->
         PyDict([k \in {"id", "layer"} |->
                   IF k = "id" THEN PyStr("c1") ELSE PyNum(1)])
    [] text = TextList -> PyList(<<PyNum(1)>>)
    [] text = TextEmptyList -> EmptyList
    [] text = TextNumber -> PyNum(5)
    [] text = TextZero -> PyNum(0)
    [] text = TextNull -> PyNone
    [] text = TextString -> PyStr("abc")


(***************************************************************************)
(* The project state and the values that cross the boundary.               *)
(***************************************************************************)
StateKeys ==
  {"fps", "layers", "clips", "effects", "markers", "duration", "playhead_position"}

Fps(num, den) ==
  PyDict([k \in {"num", "den"} |-> IF k = "num" THEN PyNum(num) ELSE PyNum(den)])

\* TimelineBridge.__init__: the construction-time _timeline_state.
InitField(k) ==
  CASE k = "fps" -> Fps(24, 1)
    [] k \in {"layers", "clips", "effects", "markers"} -> EmptyList
    [] k = "duration" -> PyNum(0)
    [] k = "playhead_position" -> PyNum(0)

InitTimelineState == PyDict([k \in StateKeys |-> InitField(k)])

\* The second argument of each .get(...) in _apply_project_state.
ApplyDefault(k) ==
  CASE k = "fps" -> EmptyDict
    [] k \in {"layers", "clips", "effects", "markers"} -> EmptyList
    [] k = "duration" -> PyNum(0)
    [] k = "playhead_position" -> PyNum(0)

\* A project state of the page: one layer, two clips, 30/1 frames per second.
FullField(k) ==
  CASE k = "fps" -> Fps(30, 1)
    [] k = "layers" -> PyList(<<PyStr("L1")>>)
    [] k = "clips" -> PyList(<<PyStr("c1"), PyStr("c2")>>)
    [] k = "effects" -> PyList(<<PyStr("e1")>>)
    [] k = "markers" -> PyList(<<PyStr("m1")>>)
    [] k = "duration" -> PyNum(100)
    [] k = "playhead_position" -> PyNum(24)

StateFull == PyDict([k \in StateKeys |-> FullField(k)])
StateNoFps == PyDict([k \in {"layers", "clips", "duration"} |-> FullField(k)])

\* _apply_project_state patching the cached fields instead of replacing them.
ApplyProjectStateMerge(state, timeline, pending) ==
  LET latest == IF Truthy(state) THEN state ELSE EmptyDict
  IN  IF IsDict(latest)
        THEN [latest |-> latest,
              timeline |-> PyDict([k \in StateKeys |->
                                     DictGet(latest, k, timeline.val[k])]),
              pending |-> FALSE,
              raised |-> "none"]
        ELSE [latest |-> latest,
              timeline |-> timeline,
              pending |-> pending,
              raised |-> "AttributeError"]

(***************************************************************************)
(* TimelineBridge._apply_project_state(state), on a bridge whose           *)
(* _timeline_state and _state_refresh_pending are `timeline` and `pending`.*)
(* The first assignment is made before any .get is tried: a state that is  *)
(* truthy and not a dict is stored, and the first .get raises.             *)
(***************************************************************************)
ApplyProjectState(state, timeline, pending) ==
  LET latest == IF Truthy(state) THEN state ELSE EmptyDict
  IN  IF IsDict(latest)
        THEN [latest |-> latest,
              timeline |-> PyDict([k \in StateKeys |->
                                     DictGet(latest, k, ApplyDefault(k))]),
              pending |-> FALSE,
              raised |-> "none"]
        ELSE [latest |-> latest,
              timeline |-> timeline,
              pending |-> pending,
              raised |-> "AttributeError"]


(***************************************************************************)
(* Bounds of the model.                                                    *)
(***************************************************************************)
\* zero-delay tasks scheduled and not yet run
MaxTasks == 2
\* emitProjectState commands transmitted and not yet answered
MaxEmits == 2
\* evaluating calls suspended at once (nested event loops)
MaxDepth == 1
\* evaluating calls suspended at once where the calls overlap
MaxOverlap == 2
\* result callbacks of evaluating calls not yet delivered
MaxCalls == 1

(***************************************************************************)
(* State.                                                                  *)
(*   page                   whether self._view.page() is a live page       *)
(*   latest_project_state   self._latest_project_state                     *)
(*   last_timeline_info     self._last_timeline_info                       *)
(*   timeline_state         self._timeline_state                           *)
(*   state_refresh_pending  self._state_refresh_pending                    *)
(*   tasks      QTimer.singleShot(0, trigger_request) tasks not yet run    *)
(*   emitsOut   emitProjectState commands the page has not yet answered    *)
(*   evals      the _evaluate_js calls inside loop.exec(), innermost last: *)
(*              exit (loop.quit() was called), value (result["value"]),    *)
(*              timer (the single-shot timer is running), cb (the result   *)
(*              callback has fired), default, and first: which of the      *)
(*              callback and the timeout fired first ("none" so far)       *)
(*   lateCb     result callbacks still to come for calls that returned     *)
(* What the last step did, for the properties to read:                     *)
(*   lastOp     the handler that ran                                       *)
(*   sent       the scripts it handed to page.runJavaScript, in order      *)
(*   emitted    the signals it emitted, in order                           *)
(*   raised     the exception that left it, or "none"                      *)
(*   ret        the value it returned; NoValue when it returned nothing in *)
(*              this step (it raised, or it is suspended in loop.exec())   *)
(*   input      the arguments it was called with (invoke, set_project_state)*)
(*   prevPending  _state_refresh_pending as it was before the step         *)
(*   surface    the UI surface, tracked by SpecSync only: inbox, the       *)
(*              commands transmitted to it and not yet run; outbox, the    *)
(*              project_state callbacks it has made and the bridge has not *)
(*              yet processed; edits, the mutating commands it has run     *)
(*   heard      what the host's listener on_project_state got from its     *)
(*              get_cached_timeline_state() when the step emitted          *)
(*              projectStateChanged; NoValue when it emitted none          *)
(* The host's script of the refresh scenario (spec section 8):             *)
(*   scen       "off" when the host follows no script, else how far the    *)
(*              script add_track, add_clip, request_project_state,         *)
(*              move_clip has come and whether the page has answered       *)
(*   emitCount  emitProjectState commands transmitted since the script     *)
(*              began                                                      *)
(* The objects behind the values, tracked by SpecObjects only (elsewhere   *)
(* the heap is empty and values stand for themselves):                     *)
(*   heap          the dict and list objects, by identity 1..Len(heap);    *)
(*                 an object's entries are plain values or references      *)
(*   latest_ref    the object self._latest_project_state refers to         *)
(*   timeline_ref  the object self._timeline_state refers to               *)
(*   held          the objects the bridge's callers hold a reference to:   *)
(*                 the payloads they passed in and the values returned     *)
(*   mutations     how many times a caller has changed an object it holds  *)
(***************************************************************************)
VARIABLES page, latest_project_state, last_timeline_info, timeline_state,
          state_refresh_pending, tasks, emitsOut, evals, lateCb,
          lastOp, sent, emitted, raised, ret, input, prevPending,
          scen, emitCount,
          heap, latest_ref, timeline_ref, held, mutations,
          heard, surface

cache == <<latest_project_state, last_timeline_info, timeline_state>>
debouncer == <<state_refresh_pending, tasks, emitsOut>>
waits == <<evals, lateCb>>
objects == <<heap, latest_ref, timeline_ref, held, mutations>>
vars == <<page, latest_project_state, last_timeline_info, timeline_state,
          state_refresh_pending, tasks, emitsOut, evals, lateCb,
          lastOp, sent, emitted, raised, ret, input, prevPending,
          scen, emitCount,
          heap, latest_ref, timeline_ref, held, mutations,
          heard, surface>>

NoValue == [kind |-> "novalue", val |-> 0]

\* A call window.timelineApi?.fn(args) as a script.
Script(fn, params) == [fn |-> fn, params |-> params]
\* A signal emission.
Signal(name, payload) == [name |-> name, payload |-> payload]

EmitScript == Script("emitProjectState", <<>>)
IsEmit(script) == script.fn = "emitProjectState"
EmitsIn(scripts) == Cardinality({i \in 1..Len(scripts) : IsEmit(scripts[i])})

\* The scenario's script: the state after `op`, or "blocked" when the script
\* does not allow `op` now.  The zero-delay task may run at any point of it.
ScenAfter(op) ==
  CASE scen = "off" -> "off"
    [] op = "trigger_request" -> scen
    [] scen = "start" /\ op = "add_track" -> "track_added"
    [] scen = "track_added" /\ op = "add_clip" -> "clip_added"
    [] scen = "clip_added" /\ op = "request_project_state" -> "requested"
    [] scen = "requested" /\ op = "move_clip" -> "moved"
    [] scen = "moved" /\ op = "invoke_project_state" /\ emitsOut > 0 -> "answered"
    [] scen = "answered" /\ op = "invoke_project_state" /\ emitsOut > 0 -> "answered"
    [] OTHER -> "blocked"

\* mutating commands the host issues to a tracked UI surface
MaxEdits == 3
\* commands transmitted to a tracked UI surface and not yet run by it
MaxInbox == 3

\* the UI surface is not tracked
SurfaceOff == [tracked |-> FALSE, inbox |-> <<>>, outbox |-> <<>>, edits |-> 0]

\* the functions of window.timelineApi that change the timeline's clips
EditingFunctions ==
  {"addClip", "addTrack", "removeTrack", "removeClip", "updateClip", "moveClip",
   "setClipColor"}

EditsIn(scripts) ==
  Cardinality({i \in 1..Len(scripts) : scripts[i].fn \in EditingFunctions})

\* the project state of a UI surface that has run `edits` mutating commands
SurfaceState(edits) ==
  PyDict([k \in {"clips"} |-> PyList([i \in 1..edits |-> PyNum(i)])])

\* whether a tracked UI surface lets the step happen: a project_state
\* callback is the oldest one the surface has made, and the commands of the
\* step fit the bounds
SurfaceAllows(op, args, scripts) ==
  \/ ~surface.tracked
  \/ /\ op = "invoke_project_state"
     /\ Len(surface.outbox) > 0
     /\ args = PyList(<<Head(surface.outbox)>>)
  \/ /\ op # "invoke_project_state"
     /\ Len(surface.inbox) + Len(scripts) <= MaxInbox
     /\ surface.edits + EditsIn(surface.inbox) + EditsIn(scripts) <= MaxEdits

\* page.runJavaScript(script) hands the step's commands to the UI surface, in
\* the order issued; a processed callback leaves the surface's outbox
SurfaceAfter(op, scripts) ==
  IF ~surface.tracked THEN surface
  ELSE IF op = "invoke_project_state"
    THEN [surface EXCEPT !.outbox = Tail(@)]
  ELSE [surface EXCEPT !.inbox = @ \o scripts]

\* projectStateChanged emitted before the state is applied: the listener
\* reads the cache as it was.
OnProjectStateEarly(before, after) == before

\* TimelineDemo.on_project_state, connected to projectStateChanged: what its
\* get_cached_timeline_state() returns.  invoke emits the signal after
\* _apply_project_state has returned, so the read sees the cache as applied.
OnProjectState(before, after) == after

LogStep(op, args, scripts, signals, exc, value) ==
  /\ lastOp' = op
  /\ SurfaceAllows(op, args, scripts)
  /\ surface' = SurfaceAfter(op, scripts)
  /\ heard' = IF \E i \in 1..Len(signals) : signals[i].name = "projectStateChanged"
                THEN OnProjectState(timeline_state, timeline_state')
                ELSE NoValue
  /\ input' = args
  /\ sent' = scripts
  /\ emitted' = signals
  /\ raised' = exc
  /\ ret' = value
  /\ prevPending' = state_refresh_pending
  /\ ScenAfter(op) # "blocked"
  /\ scen' = ScenAfter(op)
  /\ emitCount' = IF scen = "off" THEN emitCount ELSE emitCount + EmitsIn(scripts)

\* a step of a specification that does not track object identities
LogIn(op, args, scripts, signals, exc, value) ==
  /\ LogStep(op, args, scripts, signals, exc, value)
  /\ UNCHANGED objects

Log(op, scripts, signals, exc, value) ==
  LogIn(op, EmptyList, scripts, signals, exc, value)

\* TimelineBridge.__init__, and nothing done yet.
Constructed ==
  /\ latest_project_state = EmptyDict
  /\ last_timeline_info = EmptyDict
  /\ timeline_state = InitTimelineState
  /\ state_refresh_pending = FALSE
  /\ tasks = 0
  /\ emitsOut = 0
  /\ evals = <<>>
  /\ lateCb = 0
  /\ lastOp = "__init__"
  /\ sent = <<>>
  /\ emitted = <<>>
  /\ raised = "none"
  /\ ret = NoValue
  /\ input = EmptyList
  /\ prevPending = FALSE
  /\ emitCount = 0
  /\ heard = NoValue

\* object identities are not tracked
Untracked ==
  /\ surface = SurfaceOff
  /\ heap = <<>>
  /\ latest_ref = 0
  /\ timeline_ref = 0
  /\ held = <<>>
  /\ mutations = 0

\* A bridge on a view with or without a live page; the host follows no script.
Init ==
  /\ page \in BOOLEAN
  /\ Constructed
  /\ Untracked
  /\ scen = "off"

\* TimelineBridge._run_js: the scripts transmitted to the page.
RunJs(script) == IF page THEN <<script>> ELSE <<>>

\* _queue_state_refresh without its early return: every call schedules a task.
QueueStateRefreshAlways(pending, scheduled) ==
  [pending |-> TRUE, tasks |-> scheduled + 1]

\* _queue_state_refresh scheduling its task twice.
QueueStateRefreshTwice(pending, scheduled) ==
  IF pending
    THEN [pending |-> pending, tasks |-> scheduled]
    ELSE [pending |-> TRUE, tasks |-> scheduled + 2]

\* TimelineBridge._queue_state_refresh, on a bridge whose flag is `pending`
\* and which has `scheduled` zero-delay tasks outstanding.
QueueStateRefresh(pending, scheduled) ==
  IF pending
    THEN [pending |-> pending, tasks |-> scheduled]
    ELSE [pending |-> TRUE, tasks |-> scheduled + 1]

\* request_project_state clearing the flag once the request is sent.
RequestProjectStateClears == [pending |-> FALSE, scripts |-> RunJs(EmitScript)]

\* TimelineBridge.request_project_state: the flag and the transmitted scripts.
RequestProjectState == [pending |-> TRUE, scripts |-> RunJs(EmitScript)]


(***************************************************************************)
(* Host calls: the fire-and-forget operations.                             *)
(***************************************************************************)
\* self._run_js(script); self._queue_state_refresh()
RunAndQueue(op, script) ==
  LET q == QueueStateRefresh(state_refresh_pending, tasks)
  IN  /\ q.tasks <= MaxTasks
      /\ state_refresh_pending' = q.pending
      /\ tasks' = q.tasks
      /\ UNCHANGED <<page, cache, emitsOut, waits>>
      /\ Log(op, RunJs(script), <<>>, "none", PyNone)

\* self._run_js(script)
RunOnly(op, script) ==
  /\ UNCHANGED <<page, cache, debouncer, waits>>
  /\ Log(op, RunJs(script), <<>>, "none", PyNone)

add_clip(clip) == RunAndQueue("add_clip", Script("addClip", <<clip>>))

add_track(track) == RunAndQueue("add_track", Script("addTrack", <<track>>))

remove_track(track_identifier, keep_clips, allow_shrink) ==
  RunAndQueue("remove_track",
              Script("removeTrack",
                     <<track_identifier,
                       PyDict([k \in {"keepClips", "allowShrink"} |->
                                 IF k = "keepClips" THEN PyBool(keep_clips)
                                                    ELSE PyBool(allow_shrink)])>>))

remove_clip(clip_id) == RunAndQueue("remove_clip", Script("removeClip", <<clip_id>>))

update_clip(clip_id, patch) ==
  RunAndQueue("update_clip", Script("updateClip", <<clip_id, patch>>))

\* layer and position are PyNone when not given: the script then holds null.
move_clip(clip_id, layer, position, options) ==
  RunAndQueue("move_clip", Script("moveClip", <<clip_id, layer, position, options>>))

set_clip_color(clip_id, color, text_color) ==
  RunAndQueue("set_clip_color", Script("setClipColor", <<clip_id, color, text_color>>))

\* start_at is PyNone when not given: the options are then `undefined`.
PlayheadScript(playing, start_at) ==
  Script("setPlayheadPlaying",
         <<PyBool(playing),
           IF start_at = PyNone
             THEN JsUndefined
             ELSE PyDict([k \in {"startAt"} |-> start_at])>>)

set_playhead_playing(playing, start_at) ==
  RunOnly("set_playhead_playing", PlayheadScript(playing, start_at))

play_playhead(start_at) == RunOnly("play_playhead", PlayheadScript(TRUE, start_at))

pause_playhead == RunOnly("pause_playhead", PlayheadScript(FALSE, PyNone))

toggle_playhead == RunOnly("toggle_playhead", Script("togglePlayhead", <<>>))

resize_timeline(duration, allow_shrink) ==
  RunOnly("resize_timeline",
          Script("resizeTimeline",
                 <<FloatOf(duration), PyDict([k \in {"allowShrink"} |-> PyBool(allow_shrink)])>>))

move_playhead(seconds) ==
  RunOnly("move_playhead", Script("movePlayhead", <<FloatOf(seconds)>>))

\* set_timeline_frame_rate building its payload without the test for zero.
FrameRatePayloadRaw(fps) ==
  IF fps.kind = "tuple"
    THEN Fps(IntOf(fps.val[1]), IntOf(fps.val[2]))
  ELSE IF IsDict(fps)
    THEN LET num == DictGet(fps, "num", PyNum(0))
             den == DictGet(fps, "den", PyNum(1))
         IN  Fps(IntOf(IF Truthy(num) THEN num ELSE PyNum(0)),
                 IntOf(IF Truthy(den) THEN den ELSE PyNum(1)))
  ELSE FloatOf(fps)

\* set_timeline_frame_rate: the payload built from a (num, den) tuple, a dict
\* or a plain number.
\*   tuple: {"num": int(num), "den": int(den) if int(den) != 0 else 1}
\*   dict:  {"num": int(fps.get("num", 0) or 0),
\*           "den": int(fps.get("den", 1) or 1)}, and den 0 made 1
\*   else:  float(fps)
FrameRatePayload(fps) ==
  IF fps.kind = "tuple"
    THEN Fps(IntOf(fps.val[1]),
             IF IntOf(fps.val[2]) # 0 THEN IntOf(fps.val[2]) ELSE 1)
  ELSE IF IsDict(fps)
    THEN LET num == DictGet(fps, "num", PyNum(0))
             den == DictGet(fps, "den", PyNum(1))
             n == IntOf(IF Truthy(num) THEN num ELSE PyNum(0))
             d == IntOf(IF Truthy(den) THEN den ELSE PyNum(1))
         IN  Fps(n, IF d = 0 THEN 1 ELSE d)
  ELSE FloatOf(fps)

set_timeline_frame_rate(fps) ==
  /\ UNCHANGED <<page, cache, debouncer, waits>>
  /\ LogIn("set_timeline_frame_rate", PyList(<<fps>>),
           RunJs(Script("setFrameRate", <<FrameRatePayload(fps)>>)),
           <<>>, "none", PyNone)

\* request_project_state, called by the host.
request_project_state ==
  LET r == RequestProjectState
  IN  /\ emitsOut + EmitsIn(r.scripts) <= MaxEmits
      /\ state_refresh_pending' = r.pending
      /\ emitsOut' = emitsOut + EmitsIn(r.scripts)
      /\ UNCHANGED <<page, cache, tasks, waits>>
      /\ Log("request_project_state", r.scripts, <<>>, "none", PyNone)

\* trigger_request: a zero-delay task queued by _queue_state_refresh runs.
trigger_request ==
  LET r == RequestProjectState
  IN  /\ tasks > 0
      /\ emitsOut + EmitsIn(r.scripts) <= MaxEmits
      /\ tasks' = tasks - 1
      /\ state_refresh_pending' = r.pending
      /\ emitsOut' = emitsOut + EmitsIn(r.scripts)
      /\ UNCHANGED <<page, cache, waits>>
      /\ Log("trigger_request", r.scripts, <<>>, "none", PyNone)

\* set_project_state: push the state to the page, then apply it locally.
set_project_state(project_state) ==
  LET a == ApplyProjectState(project_state, timeline_state, state_refresh_pending)
  IN  /\ latest_project_state' = a.latest
      /\ timeline_state' = a.timeline
      /\ state_refresh_pending' = a.pending
      /\ UNCHANGED <<page, last_timeline_info, tasks, emitsOut, waits>>
      /\ LogIn("set_project_state", PyList(<<project_state>>),
             RunJs(Script("setProjectState", <<project_state>>)),
             <<>>, a.raised,
             IF a.raised = "none" THEN PyNone ELSE NoValue)

\* get_cached_timeline_state: copy.deepcopy(self._timeline_state)
GetCachedTimelineState == timeline_state

get_cached_timeline_state ==
  /\ UNCHANGED <<page, cache, debouncer, waits>>
  /\ Log("get_cached_timeline_state", <<>>, <<>>, "none", GetCachedTimelineState)


(***************************************************************************)
(* Slots called by the page.                                               *)
(***************************************************************************)
qt_log(level, message) ==
  /\ UNCHANGED <<page, cache, debouncer, waits>>
  /\ Log("qt_log", <<>>, <<Signal("logMessage", <<level, message>>)>>, "none", PyNone)

page_ready ==
  /\ UNCHANGED <<page, cache, debouncer, waits>>
  /\ Log("page_ready", <<>>, <<Signal("pageReady", <<>>)>>, "none", PyBool(TRUE))

\* invoke, method == "project_state": the state read from the arguments.
ProjectStateOf(py_args) ==
  LET state_payload == IF Truthy(py_args) THEN py_args.val[1] ELSE EmptyDict
  IN  IF IsStr(state_payload)
        THEN IF JsonValid(state_payload.val)
               THEN JsonLoads(state_payload.val)
               ELSE EmptyDict
      ELSE IF IsDict(state_payload)
        THEN state_payload
      ELSE EmptyDict

\* invoke("project_state", args).  The callback answers the oldest
\* emitProjectState command still unanswered, if there is one.
invoke_project_state(args) ==
  LET py_args == ConvertVariant(args)
      state == ProjectStateOf(py_args)
      a == ApplyProjectState(state, timeline_state, state_refresh_pending)
  IN  /\ latest_project_state' = a.latest
      /\ timeline_state' = a.timeline
      /\ state_refresh_pending' = a.pending
      /\ emitsOut' = IF emitsOut > 0 THEN emitsOut - 1 ELSE 0
      /\ UNCHANGED <<page, last_timeline_info, tasks, waits>>
      /\ IF a.raised = "none"
           THEN LogIn("invoke_project_state", args, <<>>,
                    <<Signal("projectStateChanged", <<state>>),
                      Signal("eventReceived",
                             <<PyStr("project_state"), PyList(<<state>>)>>)>>,
                    "none", state)
           ELSE LogIn("invoke_project_state", args, <<>>, <<>>, a.raised, NoValue)

\* _handle_js_event taking every inbound method for a structural change.
StructuralMethodsAll ==
  {"update_clip_data", "removeClip", "removeTrack", "addTrack", "selection_changed"}

\* _handle_js_event: the methods that denote a structural change.
StructuralMethods == {"update_clip_data", "removeClip", "removeTrack", "addTrack"}

HandleJsEvent(method, pending, scheduled) ==
  IF method \in StructuralMethods
    THEN QueueStateRefresh(pending, scheduled)
    ELSE [pending |-> pending, tasks |-> scheduled]

\* invoke(method, args), method != "project_state"
invoke_event(method, args) ==
  LET py_args == ConvertVariant(args)
      q == HandleJsEvent(method, state_refresh_pending, tasks)
  IN  /\ method # "project_state"
      /\ q.tasks <= MaxTasks
      /\ state_refresh_pending' = q.pending
      /\ tasks' = q.tasks
      /\ UNCHANGED <<page, cache, emitsOut, waits>>
      /\ LogIn("invoke_event", PyList(<<PyStr(method), args>>), <<>>,
             <<Signal("eventReceived", <<PyStr(method), py_args>>)>>,
             "none", PyNone)

(***************************************************************************)
(* get_timeline_info and the evaluating call _evaluate_js.                 *)
(***************************************************************************)
\* _evaluate_js without its check of the page.
NoPageNever == FALSE

\* if not page: return default
NoPage == ~page

\* get_timeline_info returning and caching the fetched mapping as it came.
WithProjectNever(info_obj, latest) == info_obj

\* info = copy.deepcopy(info_obj); if self._latest_project_state and
\* "project" not in info: info["project"] = copy.deepcopy(latest)
WithProject(info_obj, latest) ==
  IF Truthy(latest) /\ ~HasKey(info_obj, "project")
    THEN DictSet(info_obj, "project", latest)
    ELSE info_obj

\* the fallbacks of get_timeline_info tried in the other order
FallbackProjectFirst(last_info, latest) ==
  IF Truthy(latest) THEN PyDict([k \in {"project"} |-> latest])
  ELSE IF Truthy(last_info) THEN last_info
  ELSE EmptyDict

\* get_timeline_info when info_obj is no dict: the last TimelineInfo, else
\* the last ProjectState under "project", else {}
Fallback(last_info, latest) ==
  IF Truthy(last_info) THEN last_info
  ELSE IF Truthy(latest) THEN PyDict([k \in {"project"} |-> latest])
  ELSE EmptyDict

\* get_timeline_info from the line after _evaluate_js returned info_obj.
AfterEvaluate(info_obj) ==
  IF IsDict(info_obj)
    THEN LET info == WithProject(info_obj, latest_project_state)
             fold == HasKey(info, "project") /\ IsDict(info.val["project"])
             a == IF fold
                    THEN ApplyProjectState(info.val["project"], timeline_state,
                                           state_refresh_pending)
                    ELSE [latest |-> latest_project_state,
                          timeline |-> timeline_state,
                          pending |-> state_refresh_pending,
                          raised |-> "none"]
         IN  [latest |-> a.latest, timeline |-> a.timeline, pending |-> a.pending,
              lastInfo |-> info, ret |-> info, usable |-> TRUE, folded |-> fold]
    ELSE [latest |-> latest_project_state,
          timeline |-> timeline_state,
          pending |-> state_refresh_pending,
          lastInfo |-> last_timeline_info,
          ret |-> Fallback(last_timeline_info, latest_project_state),
          usable |-> FALSE, folded |-> FALSE]

Finish(op, info_obj) ==
  LET g == AfterEvaluate(info_obj)
  IN  /\ latest_project_state' = g.latest
      /\ timeline_state' = g.timeline
      /\ state_refresh_pending' = g.pending
      /\ last_timeline_info' = g.lastInfo
      /\ Log(op, <<>>, <<>>, "none", g.ret)

CollectScript == Script("collectTimelineInfo", <<>>)

\* A new wait: result = {"value": default}, timer.start(2000),
\* page.runJavaScript(script, callback), loop.exec().
NewWait(default) ==
  [exit |-> FALSE, value |-> default, timer |-> TRUE, cb |-> FALSE,
   default |-> default, first |-> "none"]

\* get_timeline_info is called: without a page _evaluate_js returns its default
\* at once and the call completes; with one the call is suspended in loop.exec().
\* At most `depth` calls are suspended at once, and at most `calls` result
\* callbacks are not yet delivered.
StartCall(depth, calls) ==
  IF NoPage
    THEN /\ Finish("get_timeline_info", PyNone)
         /\ UNCHANGED <<page, tasks, emitsOut, waits>>
    ELSE /\ Len(evals) < depth
         /\ Len(evals) + lateCb < calls
         /\ evals' = Append(evals, NewWait(PyNone))
         /\ UNCHANGED <<page, cache, debouncer, lateCb>>
         /\ Log("get_timeline_info", <<CollectScript>>, <<>>, "none", NoValue)

get_timeline_info == StartCall(MaxDepth, MaxCalls)

\* callback(value) of the i-th suspended call
OnCallback(w, value) ==
  [w EXCEPT !.value = value, !.cb = TRUE, !.exit = TRUE,
            !.first = IF w.first = "none" THEN "callback" ELSE w.first]

\* on_timeout of the i-th suspended call; the timer is single-shot
OnTimeout(w) ==
  [w EXCEPT !.timer = FALSE, !.exit = TRUE,
            !.first = IF w.first = "none" THEN "timeout" ELSE w.first]

\* one result holder shared by the suspended calls: a callback writes the
\* value every one of them will return
eval_callback_shared(i, value) ==
  /\ i \in 1..Len(evals)
  /\ ~evals[i].cb
  /\ evals' = [j \in 1..Len(evals) |->
                IF j = i THEN OnCallback(evals[j], value)
                ELSE [evals[j] EXCEPT !.value = value]]
  /\ UNCHANGED <<page, cache, debouncer, lateCb>>
  /\ Log("callback", <<>>, <<>>, "none", PyNone)

eval_callback(i, value) ==
  /\ i \in 1..Len(evals)
  /\ ~evals[i].cb
  /\ evals' = [evals EXCEPT ![i] = OnCallback(evals[i], value)]
  /\ UNCHANGED <<page, cache, debouncer, lateCb>>
  /\ Log("callback", <<>>, <<>>, "none", PyNone)

eval_timeout(i) ==
  /\ i \in 1..Len(evals)
  /\ evals[i].timer
  /\ evals' = [evals EXCEPT ![i] = OnTimeout(evals[i])]
  /\ UNCHANGED <<page, cache, debouncer, lateCb>>
  /\ Log("on_timeout", <<>>, <<>>, "none", PyNone)

\* loop.exec() of the innermost call returns once its loop was told to quit:
\* timer.stop(), return self._convert_variant(result["value"]), and the rest
\* of get_timeline_info.
eval_return ==
  /\ Len(evals) > 0
  /\ evals[Len(evals)].exit
  /\ evals' = SubSeq(evals, 1, Len(evals) - 1)
  /\ lateCb' = lateCb + (IF evals[Len(evals)].cb THEN 0 ELSE 1)
  /\ Finish("loop_exec_return", ConvertVariant(evals[Len(evals)].value))
  /\ UNCHANGED <<page, tasks, emitsOut>>

\* The result callback of a call that already returned: it writes the result
\* holder of that call and finds its loop not running.
late_callback(value) ==
  /\ lateCb > 0
  /\ lateCb' = lateCb - 1
  /\ UNCHANGED <<page, cache, debouncer, evals>>
  /\ Log("late_callback", <<>>, <<>>, "none", PyNone)


(***************************************************************************)
(* The inputs of the operations.                                           *)
(***************************************************************************)
ClipC1 ==
  PyDict([k \in {"id", "layer", "position"} |->
            IF k = "id" THEN PyStr("c1") ELSE IF k = "layer" THEN PyNum(1) ELSE PyNum(2)])
TrackL1 ==
  PyDict([k \in {"id", "number"} |-> IF k = "id" THEN PyStr("L1") ELSE PyNum(1)])

\* values window.timelineApi.collectTimelineInfo() hands to the result callback
InfoPlain == PyDict([k \in {"duration"} |-> PyNum(100)])
InfoProject ==
  PyDict([k \in {"duration", "project"} |->
            IF k = "duration" THEN PyNum(100) ELSE StateFull])
InfoBadProject == PyDict([k \in {"project"} |-> PyNum(3)])

PyTuple(seq) == [kind |-> "tuple", val |-> seq]

\* The inputs of Spec, the interleaving of all operations of one bridge.
HostStates == {StateNoFps}
ProjectStateArgs == {PyList(<<StateFull>>), PyList(<<PyStr(TextList)>>)}
EventMethods == StructuralMethods \cup {"selection_changed"}
EventArgs == {PyList(<<PyStr(TextClipNoPosition)>>)}
EvalValues == {InfoProject}
FrameRates == {PyNum(30), Fps(5, 0)}

Next ==
  \/ add_clip(ClipC1)
  \/ add_track(TrackL1)
  \/ remove_track(PyStr("L1"), FALSE, FALSE)
  \/ remove_clip(PyStr("c1"))
  \/ update_clip(PyStr("c1"), PyDict([k \in {"position"} |-> PyNum(3)]))
  \/ move_clip(PyStr("c1"), PyNone, PyNum(4), EmptyDict)
  \/ set_clip_color(PyStr("c1"), PyStr("#5b8def"), PyNone)
  \/ set_playhead_playing(TRUE, PyNum(2))
  \/ play_playhead(PyNone)
  \/ pause_playhead
  \/ toggle_playhead
  \/ resize_timeline(PyNum(100), TRUE)
  \/ move_playhead(PyNum(24))
  \/ \E fps \in FrameRates : set_timeline_frame_rate(fps)
  \/ request_project_state
  \/ trigger_request
  \/ \E ps \in HostStates : set_project_state(ps)
  \/ get_cached_timeline_state
  \/ qt_log("info", "ready")
  \/ page_ready
  \/ \E args \in ProjectStateArgs : invoke_project_state(args)
  \/ \E m \in EventMethods, args \in EventArgs : invoke_event(m, args)
  \/ get_timeline_info
  \/ \E i \in 1..MaxDepth, v \in EvalValues : eval_callback(i, v)
  \/ \E i \in 1..MaxDepth : eval_timeout(i)
  \/ eval_return
  \/ \E v \in EvalValues : late_callback(v)

Spec == Init /\ [][Next]_vars

(***************************************************************************)
(* The refresh scenario of spec section 8: on a live page the host calls   *)
(* add_track, add_clip, request_project_state and, before the page         *)
(* answers, move_clip; then the page answers.  The zero-delay task queued  *)
(* by the first call runs whenever the event loop gets to it.              *)
(***************************************************************************)
TrackL2 ==
  PyDict([k \in {"id", "number"} |-> IF k = "id" THEN PyStr("L2") ELSE PyNum(2)])
ClipC2 ==
  PyDict([k \in {"id", "layer", "position"} |->
            IF k = "id" THEN PyStr("c2") ELSE IF k = "layer" THEN PyNum(1) ELSE PyNum(7)])
ScenarioAnswers ==
  {PyList(<<StateFull>>), PyList(<<StateNoFps>>), PyList(<<PyStr(TextState)>>),
   PyList(<<PyStr(TextEmptyObject)>>)}

\* An idle bridge: as constructed, or after the host's set_project_state(ps)
\* on the constructed bridge.
IdleAfterSet(ps) ==
  LET a == ApplyProjectState(ps, InitTimelineState, FALSE)
  IN  /\ latest_project_state = a.latest
      /\ last_timeline_info = EmptyDict
      /\ timeline_state = a.timeline
      /\ state_refresh_pending = a.pending
      /\ tasks = 0
      /\ emitsOut = 0
      /\ evals = <<>>
      /\ lateCb = 0
      /\ lastOp = "set_project_state"
      /\ sent = <<Script("setProjectState", <<ps>>)>>
      /\ emitted = <<>>
      /\ raised = "none"
      /\ ret = PyNone
      /\ input = PyList(<<ps>>)
      /\ prevPending = FALSE
      /\ emitCount = 0
      /\ heard = NoValue

InitScenario ==
  /\ page = TRUE
  /\ Constructed \/ \E ps \in {StateFull, StateNoFps, EmptyDict} : IdleAfterSet(ps)
  /\ Untracked
  /\ scen = "start"

NextScenario ==
  \/ \E track \in {TrackL1, TrackL2} : add_track(track)
  \/ \E clip \in {ClipC1, ClipC2} : add_clip(clip)
  \/ request_project_state
  \/ \E layer \in {PyNone, PyNum(2)}, position \in {PyNone, PyNum(4)} :
       move_clip(PyStr("c1"), layer, position, EmptyDict)
  \/ trigger_request
  \/ \E args \in ScenarioAnswers : invoke_project_state(args)

SpecScenario == InitScenario /\ [][NextScenario]_vars


(***************************************************************************)
(* SpecData: the state cache under every shape of payload.  The page calls *)
(* invoke("project_state", args) with every kind of argument list, the     *)
(* host calls set_project_state with every mapping, request_project_state  *)
(* and get_cached_timeline_state.                                          *)
(***************************************************************************)
\* every mapping that holds, for some of the keys, the fields of StateFull
DataMappings == {PyDict([k \in ks |-> FullField(k)]) : ks \in SUBSET StateKeys}

\* the mappings the host passes to set_project_state
HostData == {StateFull, StateNoFps, EmptyDict, PyDict([k \in {"fps"} |-> Fps(5, 0)])}

DataTexts ==
  {TextEmptyObject, TextState, TextList, TextEmptyList, TextNumber, TextZero,
   TextNull, TextString, TextGarbage, TextEmpty}

DataOthers ==
  {PyNone, PyNum(5), PyNum(0), PyBool(TRUE), EmptyList, PyList(<<PyNum(1)>>)}

DataArgs ==
  {PyList(<<>>)}
    \cup {PyList(<<p>>) : p \in DataMappings}
    \cup {PyList(<<PyStr(t)>>) : t \in DataTexts}
    \cup {PyList(<<p>>) : p \in DataOthers}
    \cup {PyList(<<StateNoFps, PyNum(1)>>)}

NextData ==
  \/ \E args \in DataArgs : invoke_project_state(args)
  \/ \E ps \in HostData : set_project_state(ps)
  \/ request_project_state
  \/ get_cached_timeline_state

SpecData == Init /\ [][NextData]_vars


(***************************************************************************)
(* SpecObjects: the state cache with object identities.  Python's dicts    *)
(* and lists are objects on a heap; a name or an entry holds a reference,  *)
(* and two references to one object see each other's changes.  The host    *)
(* passes payloads it keeps a reference to, reads the cache, and changes   *)
(* the objects it holds, at any depth.                                     *)
(***************************************************************************)
\* objects the heap may hold
MaxObjects == 40
\* changes callers make to objects they hold
MaxMutations == 2

Ref(id) == [kind |-> "ref", val |-> id]
IsRef(cell) == cell.kind = "ref"

\* a new object on the heap `h`, and the reference to it
Alloc(h, obj) == [heap |-> Append(h, obj), cell |-> Ref(Len(h) + 1)]

\* the keys of a dict, in some fixed order
RECURSIVE KeySeq(_)
KeySeq(ks) ==
  IF ks = {} THEN <<>>
  ELSE LET k == CHOOSE x \in ks : TRUE IN <<k>> \o KeySeq(ks \ {k})

IndexOf(seq, x) == CHOOSE i \in 1..Len(seq) : seq[i] = x

\* the value a cell stands for: references followed to the leaves
RECURSIVE Deref(_, _)
Deref(h, cell) ==
  IF ~IsRef(cell) THEN cell
  ELSE LET obj == h[cell.val]
       IN  IF IsList(obj)
             THEN PyList([i \in 1..Len(obj.val) |-> Deref(h, obj.val[i])])
             ELSE PyDict([k \in DOMAIN obj.val |-> Deref(h, obj.val[k])])

\* the objects reachable from a cell
RECURSIVE Reach(_, _)
Reach(h, cell) ==
  IF ~IsRef(cell) THEN {}
  ELSE LET obj == h[cell.val]
           entries == IF IsList(obj) THEN {obj.val[i] : i \in 1..Len(obj.val)}
                                     ELSE {obj.val[k] : k \in DOMAIN obj.val}
       IN  {cell.val} \cup UNION {Reach(h, c) : c \in entries}

\* the value `v` built from new objects on the heap `h`: a dict or list
\* literal, or the result of a structural copy
RECURSIVE Store(_, _), StoreItems(_, _, _)
Store(h, v) ==
  IF IsList(v)
    THEN LET r == StoreItems(h, v.val, <<>>)
         IN  Alloc(r.heap, PyList(r.items))
  ELSE IF IsDict(v)
    THEN LET keys == KeySeq(DOMAIN v.val)
             r == StoreItems(h, [i \in 1..Len(keys) |-> v.val[keys[i]]], <<>>)
         IN  Alloc(r.heap, PyDict([k \in DOMAIN v.val |-> r.items[IndexOf(keys, k)]]))
  ELSE [heap |-> h, cell |-> v]
StoreItems(h, todo, done) ==
  IF todo = <<>> THEN [heap |-> h, items |-> done]
  ELSE LET s == Store(h, Head(todo))
       IN  StoreItems(s.heap, Tail(todo), Append(done, s.cell))

\* copy.deepcopy(x): a new object for every object reachable from x
DeepCopy(h, cell) ==
  IF IsRef(cell) THEN Store(h, Deref(h, cell)) ELSE [heap |-> h, cell |-> cell]

\* TimelineBridge._convert_variant on objects: every list and dict rebuilt
ConvertVariantObjects(h, cell) ==
  IF IsRef(cell) THEN Store(h, Deref(h, cell)) ELSE [heap |-> h, cell |-> cell]

\* the fields _apply_project_state deep-copies, in the order of the source
CopiedKeys == <<"fps", "layers", "clips", "effects", "markers">>

\* copy.deepcopy(latest.get(k, default)) for the keys `todo`, in turn
RECURSIVE CopyFields(_, _, _, _)
CopyFields(h, latest, todo, done) ==
  IF todo = <<>> THEN [heap |-> h, items |-> done]
  ELSE LET k == Head(todo)
           got == IF HasKey(latest, k)
                    THEN [heap |-> h, cell |-> latest.val[k]]
                    ELSE Store(h, ApplyDefault(k))
           c == DeepCopy(got.heap, got.cell)
       IN  CopyFields(c.heap, latest, Tail(todo), Append(done, c.cell))

\* TimelineBridge._apply_project_state(state) on objects, for a state that is
\* a dict: the new heap and the objects _latest_project_state and
\* _timeline_state refer to afterwards.
ApplyObjects(h, state) ==
  LET given == IF Truthy(h[state.val])
                 THEN [heap |-> h, cell |-> state]
                 ELSE Store(h, EmptyDict)
      copy == DeepCopy(given.heap, given.cell)
      latest == copy.heap[copy.cell.val]
      fields == CopyFields(copy.heap, latest, CopiedKeys, <<>>)
      made == Alloc(fields.heap,
                    PyDict([k \in StateKeys |->
                              IF k \in {"duration", "playhead_position"}
                                THEN DictGet(latest, k, ApplyDefault(k))
                                ELSE fields.items[IndexOf(CopiedKeys, k)]]))
  IN  [heap |-> made.heap, latest |-> copy.cell.val, timeline |-> made.cell.val]

\* get_cached_timeline_state handing out the cache object itself
CachedAlias(h, timeline) == [heap |-> h, cell |-> Ref(timeline)]

\* TimelineBridge.get_cached_timeline_state on objects
CachedCopy(h, timeline) == DeepCopy(h, Ref(timeline))

\* TimelineBridge.__init__ on objects
ConstructedObjects ==
  LET latest == Store(<<>>, EmptyDict)
      timeline == Store(latest.heap, InitTimelineState)
  IN  /\ heap = timeline.heap
      /\ latest_ref = latest.cell.val
      /\ timeline_ref = timeline.cell.val
      /\ held = <<>>
      /\ mutations = 0

Holding(id, origin) == [ref |-> id, origin |-> origin]

\* the cache after _apply_project_state, as values
ApplyEffect(applied) ==
  /\ heap' = applied.heap
  /\ latest_ref' = applied.latest
  /\ timeline_ref' = applied.timeline
  /\ latest_project_state' = Deref(applied.heap, Ref(applied.latest))
  /\ timeline_state' = Deref(applied.heap, Ref(applied.timeline))
  /\ state_refresh_pending' = FALSE

\* set_project_state(project_state), the host keeping its project_state
set_project_state_objects(project_state) ==
  LET passed == Store(heap, project_state)
      applied == ApplyObjects(passed.heap, passed.cell)
  IN  /\ Len(applied.heap) <= MaxObjects
      /\ ApplyEffect(applied)
      /\ held' = Append(held, Holding(passed.cell.val, "payload"))
      /\ UNCHANGED <<page, last_timeline_info, tasks, emitsOut, waits, mutations>>
      /\ LogStep("set_project_state", PyList(<<project_state>>),
                 RunJs(Script("setProjectState", <<project_state>>)),
                 <<>>, "none", PyNone)

\* invoke("project_state", [payload]) with a mapping, the caller keeping its
\* argument list and the returned state
invoke_project_state_objects(payload) ==
  LET passed == Store(heap, PyList(<<payload>>))
      py_args == ConvertVariantObjects(passed.heap, passed.cell)
      state == py_args.heap[py_args.cell.val].val[1]
      applied == ApplyObjects(py_args.heap, state)
      value == Deref(applied.heap, state)
  IN  /\ Len(applied.heap) <= MaxObjects
      /\ ApplyEffect(applied)
      /\ held' = held \o <<Holding(passed.cell.val, "payload"),
                           Holding(state.val, "returned")>>
      /\ emitsOut' = IF emitsOut > 0 THEN emitsOut - 1 ELSE 0
      /\ UNCHANGED <<page, last_timeline_info, tasks, waits, mutations>>
      /\ LogStep("invoke_project_state", PyList(<<payload>>), <<>>,
                 <<Signal("projectStateChanged", <<value>>),
                   Signal("eventReceived", <<PyStr("project_state"), PyList(<<value>>)>>)>>,
                 "none", value)

\* get_cached_timeline_state(), the caller keeping what it returns
get_cached_timeline_state_objects ==
  LET copy == CachedCopy(heap, timeline_ref)
  IN  /\ Len(copy.heap) <= MaxObjects
      /\ heap' = copy.heap
      /\ held' = Append(held, Holding(copy.cell.val, "copy"))
      /\ UNCHANGED <<page, cache, debouncer, waits, latest_ref, timeline_ref, mutations>>
      /\ LogStep("get_cached_timeline_state", EmptyList, <<>>, <<>>, "none",
                 Deref(copy.heap, copy.cell))

\* an object after its holder changed it: a new key in a dict, a new element
\* at the end of a list
Touched(obj) ==
  IF IsList(obj) THEN PyList(Append(obj.val, PyNum(99)))
                 ELSE DictSet(obj, "touched", PyNum(99))

\* a caller changes the object `id`, reached through the i-th object it holds
caller_mutates(i, id) ==
  /\ mutations < MaxMutations
  /\ i \in 1..Len(held)
  /\ id \in Reach(heap, Ref(held[i].ref))
  /\ heap[id] # Touched(heap[id])
  /\ heap' = [heap EXCEPT ![id] = Touched(heap[id])]
  /\ mutations' = mutations + 1
  /\ UNCHANGED <<page, cache, debouncer, waits, latest_ref, timeline_ref, held>>
  /\ LogStep("caller_mutates", PyList(<<PyNum(i), PyNum(id)>>), <<>>, <<>>,
             "none", NoValue)

\* payloads: a layer with a nested clip, a mutable duration, the empty mapping
PayloadLayers ==
  PyDict([k \in {"layers"} |->
            PyList(<<PyDict([j \in {"id"} |-> PyStr("c1")])>>)])
PayloadDuration == PyDict([k \in {"duration"} |-> PyList(<<PyNum(7)>>)])
ObjectPayloads == {PayloadLayers, PayloadDuration, EmptyDict}

\* a bridge on a live page, with the objects its constructor made
InitObjects ==
  /\ page = TRUE
  /\ Constructed
  /\ surface = SurfaceOff
  /\ ConstructedObjects
  /\ scen = "off"

NextObjects ==
  \/ \E ps \in ObjectPayloads : set_project_state_objects(ps)
  \/ \E p \in ObjectPayloads : invoke_project_state_objects(p)
  \/ get_cached_timeline_state_objects
  \/ \E i \in 1..Len(held), id \in 1..Len(heap) : caller_mutates(i, id)

SpecObjects == InitObjects /\ [][NextObjects]_vars

(***************************************************************************)
(* SpecEvents: the page's generic events.  The page calls invoke with      *)
(* every method name and every shape of argument list; the deferred task   *)
(* runs, the host asks for the state and the page answers.                 *)
(***************************************************************************)
AllEventMethods ==
  StructuralMethods \cup {"selection_changed", "playhead_moved", "", "project_states"}

AllEventArgs ==
  {PyList(<<>>),
   PyList(<<PyStr(TextClipNoPosition)>>),
   PyList(<<PyStr(TextGarbage)>>),
   PyList(<<ClipC1, PyNum(1)>>),
   PyList(<<PyNone>>),
   PyList(<<PyList(<<TrackL1>>)>>)}

NextEvents ==
  \/ \E m \in AllEventMethods, args \in AllEventArgs : invoke_event(m, args)
  \/ trigger_request
  \/ request_project_state
  \/ \E args \in ProjectStateArgs : invoke_project_state(args)

SpecEvents == Init /\ [][NextEvents]_vars

(***************************************************************************)
(* SpecInfo: get_timeline_info under every kind of fetched value, on       *)
(* bridges with and without a page, with the cache written and the         *)
(* refresh flag set in between.                                            *)
(***************************************************************************)
\* a project state only a fetch brings
StateFetched ==
  PyDict([k \in {"layers", "duration"} |->
            IF k = "layers" THEN PyList(<<PyStr("L9")>>) ELSE PyNum(9)])
InfoFetched ==
  PyDict([k \in {"duration", "project"} |->
            IF k = "duration" THEN PyNum(9) ELSE StateFetched])
InfoEmptyProject == PyDict([k \in {"project"} |-> EmptyDict])
\* a project state whose frame rate has a zero denominator
StateZeroDen ==
  PyDict([k \in {"fps", "duration"} |->
            IF k = "fps" THEN Fps(30, 0) ELSE PyNum(9)])

\* what collectTimelineInfo may hand to the result callback
InfoValues ==
  {InfoPlain, InfoFetched, InfoBadProject, InfoEmptyProject, EmptyDict,
   PyNone, PyNum(5), PyList(<<PyNum(1)>>), PyStr("abc")}

NextInfo ==
  \/ get_timeline_info
  \/ \E i \in 1..MaxDepth, v \in InfoValues : eval_callback(i, v)
  \/ \E i \in 1..MaxDepth : eval_timeout(i)
  \/ eval_return
  \/ \E v \in InfoValues : late_callback(v)
  \/ \E ps \in {StateNoFps, StateZeroDen, EmptyDict} : set_project_state(ps)
  \/ \E args \in ProjectStateArgs : invoke_project_state(args)
  \/ request_project_state

SpecInfo == Init /\ [][NextInfo]_vars

(***************************************************************************)
(* SpecRates: set_timeline_frame_rate under every form of frame rate: a    *)
(* (num, den) tuple, a mapping with or without num and den, a plain        *)
(* number; on bridges with and without a page.                             *)
(***************************************************************************)
\* 0, 5, 30000, -3 and 0.0, 0.5, 2.5, -0.5, 29.9
RateNumbers ==
  {PyNum(0), PyNum(5), PyNum(30000), PyNum(-3),
   PyFloat(0), PyFloat(5), PyFloat(25), PyFloat(-5), PyFloat(299)}

\* a mapping's num and den: a number, None, or no such key
RateFields == RateNumbers \cup {PyNone, NoValue}

RateMapping(num, den) ==
  PyDict([k \in {x \in {"num", "den"} :
                   IF x = "num" THEN num # NoValue ELSE den # NoValue} |->
            IF k = "num" THEN num ELSE den])

AllFrameRates ==
  {PyTuple(<<num, den>>) : num \in {PyNum(30), PyFloat(299)}, den \in RateNumbers}
    \cup {RateMapping(num, den) : num \in {PyNum(5), PyFloat(299), PyNone, NoValue},
                                  den \in RateFields}
    \cup RateNumbers

NextRates ==
  \/ \E fps \in AllFrameRates : set_timeline_frame_rate(fps)
  \/ resize_timeline(PyNum(100), TRUE)
  \/ move_playhead(PyNum(24))

SpecRates == Init /\ [][NextRates]_vars

(***************************************************************************)
(* SpecSync: the bridge and a UI surface that runs the commands it         *)
(* receives in order and answers every emitProjectState with a             *)
(* project_state callback carrying its state at that moment.  The host     *)
(* issues mutating commands and asks for the state; the deferred task      *)
(* runs; the surface runs its commands; the bridge processes the           *)
(* surface's callbacks in the order they were made.                        *)
(***************************************************************************)
\* the UI surface runs the oldest command it has received
surface_runs ==
  /\ surface.tracked
  /\ Len(surface.inbox) > 0
  /\ LET script == Head(surface.inbox)
     IN  surface' =
           [surface EXCEPT
              !.inbox = Tail(@),
              !.edits = IF script.fn \in EditingFunctions THEN @ + 1 ELSE @,
              !.outbox = IF IsEmit(script)
                           THEN Append(@, SurfaceState(surface.edits))
                           ELSE @]
  /\ lastOp' = "surface_runs"
  /\ UNCHANGED <<page, cache, debouncer, waits, objects, sent, emitted, raised,
                 ret, input, prevPending, scen, emitCount, heard>>

\* the bridge processes the oldest callback the UI surface has made
surface_answers ==
  /\ surface.tracked
  /\ Len(surface.outbox) > 0
  /\ invoke_project_state(PyList(<<Head(surface.outbox)>>))

InitSync ==
  /\ page = TRUE
  /\ Constructed
  /\ heap = <<>> /\ latest_ref = 0 /\ timeline_ref = 0 /\ held = <<>> /\ mutations = 0
  /\ surface = [tracked |-> TRUE, inbox |-> <<>>, outbox |-> <<>>, edits |-> 0]
  /\ scen = "off"

NextSync ==
  \/ add_clip(ClipC1)
  \/ move_clip(PyStr("c1"), PyNone, PyNum(4), EmptyDict)
  \/ move_playhead(PyNum(24))
  \/ request_project_state
  \/ trigger_request
  \/ surface_runs
  \/ surface_answers

SpecSync == InitSync /\ [][NextSync]_vars

(***************************************************************************)
(* SpecOverlap: evaluating calls that overlap.  While a call is suspended  *)
(* in loop.exec(), the nested loop dispatches an event whose handler calls *)
(* get_timeline_info again: a second call, with its own loop, timer and    *)
(* result holder, is suspended above the first.  The callbacks and the     *)
(* timeouts of the calls come in any order; loop.exec() of the innermost   *)
(* call returns first.                                                     *)
(***************************************************************************)
NextOverlap ==
  \/ StartCall(MaxOverlap, MaxOverlap)
  \/ \E i \in 1..MaxOverlap, v \in {InfoPlain, InfoFetched, PyNum(5)} :
       eval_callback(i, v)
  \/ \E i \in 1..MaxOverlap : eval_timeout(i)
  \/ eval_return
  \/ \E v \in {InfoPlain, InfoFetched, PyNum(5)} : late_callback(v)

SpecOverlap == Init /\ [][NextOverlap]_vars

(***************************************************************************)
(* Properties.                                                             *)
(***************************************************************************)
MutatingOps ==
  {"add_clip", "add_track", "remove_track", "remove_clip", "update_clip",
   "move_clip", "set_clip_color"}

\* refresh requests in flight: zero-delay tasks not yet run plus
\* emitProjectState commands not yet answered
InFlight == tasks + emitsOut

\* C1: in every reachable state at most one state-refresh request is in
\* flight (zero-delay refresh tasks not yet run plus emitProjectState
\* commands not yet answered by a project_state callback).
C1_AtMostOneInFlight == InFlight <= 1

\* C2: in the scenario add_track, add_clip, request_project_state, move_clip,
\* answer: PendingRefresh is true in every state from the first call until the
\* page's project_state callback is processed, and once the scenario is over
\* (the page has answered and no zero-delay task is left) exactly one
\* emitProjectState command was sent.
C2_ScenarioOneEmit ==
  /\ scen \in {"track_added", "clip_added", "requested", "moved"}
       => state_refresh_pending
  /\ (scen = "answered" /\ tasks = 0) => emitCount = 1

\* the part of C2 that the code keeps: the flag is true all through the
\* scenario, up to the answer
ScenarioPendingThroughout ==
  scen \in {"track_added", "clip_added", "requested", "moved"} => state_refresh_pending

\* C3, as claimed: PendingRefresh goes from true to false only in a step
\* that processes invoke("project_state", ...).
C3_ClearedOnlyByCallback ==
  (prevPending /\ ~state_refresh_pending) => lastOp = "invoke_project_state"

\* C3, amended: PendingRefresh goes from true to false only in a step that
\* applies a project state with _apply_project_state: a project_state
\* callback, set_project_state, or the return of get_timeline_info's fetch
\* with a mapping that carries (or is given) a project mapping; the step
\* raises nothing and leaves the applied mapping in the cache.
C3_ClearedOnlyByApply ==
  (prevPending /\ ~state_refresh_pending) =>
    /\ lastOp \in {"invoke_project_state", "set_project_state", "loop_exec_return"}
    /\ raised = "none"
    /\ IsDict(latest_project_state)
    /\ \A k \in StateKeys :
         timeline_state.val[k] = DictGet(latest_project_state, k, ApplyDefault(k))

\* a state in which set_project_state has just cleared a pending refresh
C3_Witness ==
  prevPending /\ ~state_refresh_pending /\ lastOp = "set_project_state"

YieldsMapping(args) ==
  /\ Len(args.val) > 0
  /\ \/ IsDict(args.val[1])
     \/ /\ IsStr(args.val[1])
        /\ JsonValid(args.val[1].val)
        /\ IsDict(JsonLoads(args.val[1].val))

\* C5: after invoke("project_state", [P]) with a mapping P,
\* get_cached_timeline_state returns the fields of P, and for every field
\* absent from P the construction-time default (frame rate 24/1, empty
\* sequences, zero duration, zero playhead).
C5_RoundTrip ==
  (lastOp = "invoke_project_state" /\ Len(input.val) > 0 /\ IsDict(input.val[1])) =>
    /\ raised = "none"
    /\ \A k \in StateKeys :
         GetCachedTimelineState.val[k] =
           IF HasKey(input.val[1], k) THEN input.val[1].val[k] ELSE InitField(k)

\* C6: invoke("project_state", args) never raises, whatever the shape of its
\* first argument, and when the payload yields no mapping the state applied
\* to the cache and emitted is the empty mapping.
C6_NeverRaises ==
  lastOp = "invoke_project_state" =>
    /\ raised = "none"
    /\ ~YieldsMapping(input) =>
         /\ latest_project_state = EmptyDict
         /\ Len(emitted) = 2
         /\ emitted[1].payload[1] = EmptyDict

\* C7: an evaluating call is resolved once, by whichever of its callback and
\* its timeout fires first; the other one firing afterwards changes nothing:
\* once the call's loop was told to quit, the value it will return is fixed.
C7_ResolvedOnce ==
  [][\A i \in 1..Len(evals) :
       (evals[i].exit /\ i <= Len(evals')) => evals'[i].value = evals[i].value]_vars

\* C8: an evaluating call whose timeout fired before its result callback
\* returns the caller-supplied default.
C8_TimeoutReturnsDefault ==
  [][(lastOp' = "loop_exec_return" /\ Len(evals') < Len(evals)) =>
       (evals[Len(evals)].first = "timeout" =>
          ConvertVariant(evals[Len(evals)].value) = evals[Len(evals)].default)]_vars

\* SpecWait: the evaluating calls alone, with the event loop's fairness: it
\* delivers a running timer's timeout, and loop.exec() returns once its loop
\* was told to quit.
NextWait ==
  \/ get_timeline_info
  \/ \E i \in 1..MaxDepth, v \in EvalValues : eval_callback(i, v)
  \/ \E i \in 1..MaxDepth : eval_timeout(i)
  \/ eval_return
  \/ \E v \in EvalValues : late_callback(v)
  \/ \E ps \in HostStates : set_project_state(ps)

SpecWait ==
  /\ Init
  /\ [][NextWait]_vars
  /\ WF_vars(\E i \in 1..MaxDepth : eval_timeout(i))
  /\ WF_vars(eval_return)

\* the part of C8 that the code keeps: a suspended evaluating call returns,
\* whether or not the page answers
SuspendedCallReturns == (Len(evals) > 0) ~> (Len(evals) = 0)

\* C9: without a page an evaluating call returns its default in the same
\* step: no wait is entered, no timer started, no script sent, and
\* get_timeline_info, whose default None is no mapping, returns its fallback.
C9_NoPageImmediateDefault ==
  (lastOp = "get_timeline_info" /\ ~page) =>
    /\ evals = <<>>
    /\ lateCb = 0
    /\ sent = <<>>
    /\ raised = "none"
    /\ ret = IF Truthy(last_timeline_info)
               THEN last_timeline_info
             ELSE IF Truthy(latest_project_state)
               THEN PyDict([k \in {"project"} |-> latest_project_state])
             ELSE EmptyDict

\* get_timeline_info has just returned without a page, from a cache that holds
\* a project state
C9_Witness ==
  /\ lastOp = "get_timeline_info" /\ ~page
  /\ ret = PyDict([k \in {"project"} |-> StateNoFps])

\* the caller's object that the last caller_mutates step went through
MutatedHolding == input.val[1].val

\* C10: get_cached_timeline_state returns a deep, independent copy: two
\* consecutive reads with nothing in between are equal values, and a caller
\* changing an object it holds (a returned copy or a payload it passed to
\* invoke("project_state") or set_project_state, at any depth) changes
\* neither the cache nor any other returned copy.
C10_IndependentCopies ==
  [][/\ lastOp' = "caller_mutates" =>
          /\ Deref(heap', Ref(timeline_ref')) = Deref(heap, Ref(timeline_ref))
          /\ Deref(heap', Ref(latest_ref')) = Deref(heap, Ref(latest_ref))
          /\ \A j \in 1..Len(held) :
               (held[j].origin = "copy" /\ j # input'.val[1].val) =>
                 Deref(heap', Ref(held'[j].ref)) = Deref(heap, Ref(held[j].ref))
     /\ (/\ lastOp = "get_cached_timeline_state"
         /\ lastOp' = "get_cached_timeline_state"
         /\ Len(held') = Len(held) + 1
         /\ Len(held) > 0) =>
          /\ Deref(heap', Ref(held'[Len(held')].ref)) = Deref(heap', Ref(held'[Len(held)].ref))
          /\ held'[Len(held')].ref # held'[Len(held)].ref]_vars

\* a caller has changed a nested object of a copy it read, while holding a
\* second copy and a payload it had passed in
C10_Witness ==
  /\ lastOp = "caller_mutates"
  /\ held[MutatedHolding].origin = "copy"
  /\ input.val[2].val # held[MutatedHolding].ref
  /\ \E j \in 1..Len(held) : j # MutatedHolding /\ held[j].origin = "copy"
  /\ \E j \in 1..Len(held) : held[j].origin = "payload"

\* the operations C11 counts as mutating the timeline
ClaimedMutatingOps ==
  MutatingOps \cup {"set_project_state", "set_timeline_frame_rate", "resize_timeline"}

PlaybackAndInfoOps ==
  {"set_playhead_playing", "play_playhead", "pause_playhead", "toggle_playhead",
   "move_playhead", "request_project_state"}

\* C11: every outbound operation that mutates the timeline (the clip and
\* track operations, set_project_state, set_timeline_frame_rate,
\* resize_timeline) triggers the Refresh Debouncer (from Idle: the flag is
\* set and one deferred task scheduled; while pending: nothing more), and
\* the playback and informational operations never create a deferred task.
C11_MutatingOpsTrigger ==
  [][/\ lastOp' \in ClaimedMutatingOps =>
          /\ state_refresh_pending'
          /\ tasks' = IF state_refresh_pending THEN tasks ELSE tasks + 1
     /\ lastOp' \in PlaybackAndInfoOps => tasks' = tasks]_vars

\* C12, as claimed: the cached ProjectState (_latest_project_state and
\* _timeline_state) changes only in a step that processes
\* invoke("project_state", ...) or set_project_state.
C12_WrittenOnlyByCallbackOrSet ==
  [][(latest_project_state' # latest_project_state \/ timeline_state' # timeline_state)
       => lastOp' \in {"invoke_project_state", "set_project_state"}]_vars

\* C12, amended: the cached ProjectState changes only in a step that
\* processes invoke("project_state", ...), set_project_state, or the return
\* of get_timeline_info's fetch; every other operation leaves it unchanged.
\* A write that raises nothing is a full replace: every cached field is the
\* applied mapping's field, or the default of _apply_project_state.
C12_WrittenOnlyByApply ==
  [][(latest_project_state' # latest_project_state \/ timeline_state' # timeline_state)
       => /\ lastOp' \in {"invoke_project_state", "set_project_state", "loop_exec_return"}
          /\ raised' = "none" =>
               /\ IsDict(latest_project_state')
               /\ \A k \in StateKeys :
                    timeline_state'.val[k] =
                      DictGet(latest_project_state', k, ApplyDefault(k))]_vars

\* get_timeline_info's fetch has returned a mapping with a project and the
\* project was applied: the cache holds it and the pending flag was cleared
C12_Witness ==
  /\ lastOp = "loop_exec_return"
  /\ ret = InfoProject
  /\ latest_project_state = StateFull
  /\ prevPending /\ ~state_refresh_pending

FireAndForgetOps ==
  ClaimedMutatingOps \cup PlaybackAndInfoOps

\* C15: without a page every fire-and-forget outbound operation is a silent
\* no-op: nothing is transmitted, nothing raised, and the ProjectState cache
\* and PendingRefresh are after the call what they were before it.
C15_NoPageNoOp ==
  [][(~page /\ lastOp' \in FireAndForgetOps) =>
       /\ sent' = <<>>
       /\ raised' = "none"
       /\ latest_project_state' = latest_project_state
       /\ timeline_state' = timeline_state
       /\ state_refresh_pending' = state_refresh_pending]_vars

\* C17: invoke(method, args) with a method other than project_state emits
\* exactly one eventReceived(method, normalized args), raises nothing, leaves
\* the ProjectState cache unchanged, and triggers the Refresh Debouncer
\* exactly when the method is update_clip_data, removeClip, removeTrack or
\* addTrack: from Idle the flag is set and one deferred task scheduled, while
\* pending nothing changes; for any other method the debouncer is untouched.
C17_InboundEvent ==
  [][lastOp' = "invoke_event" =>
       LET method == input'.val[1].val
           args == input'.val[2]
           structural == method \in {"update_clip_data", "removeClip",
                                     "removeTrack", "addTrack"}
       IN  /\ emitted' = <<Signal("eventReceived",
                                  <<PyStr(method), ConvertVariant(args)>>)>>
           /\ raised' = "none"
           /\ sent' = <<>>
           /\ latest_project_state' = latest_project_state
           /\ timeline_state' = timeline_state
           /\ emitsOut' = emitsOut
           /\ state_refresh_pending' = (state_refresh_pending \/ structural)
           /\ tasks' = IF structural /\ ~state_refresh_pending
                         THEN tasks + 1 ELSE tasks]_vars

\* update_clip_data with a serialized clip without position has moved an idle
\* debouncer to pending, with one deferred task
C17_Witness ==
  /\ lastOp = "invoke_event"
  /\ input = PyList(<<PyStr("update_clip_data"), PyList(<<PyStr(TextClipNoPosition)>>)>>)
  /\ ~prevPending /\ state_refresh_pending
  /\ tasks = 1 /\ emitsOut = 0

\* the steps that trigger the Refresh Debouncer through _queue_state_refresh
TriggerOps == MutatingOps \cup {"invoke_event"}

C16_ApplyThenEmit ==
  (lastOp = "invoke_project_state" /\ Len(input.val) > 0 /\ IsDict(input.val[1])) =>
    LET P == input.val[1]
    IN  /\ raised = "none"
        /\ latest_project_state = P
        /\ ~state_refresh_pending
        /\ emitted = <<Signal("projectStateChanged", <<P>>),
                       Signal("eventReceived",
                              <<PyStr("project_state"), PyList(<<P>>)>>)>>
        /\ ret = P
        /\ heard = timeline_state
        /\ \A k \in StateKeys \cap DOMAIN P.val : heard.val[k] = P.val[k]

\* the page has answered a pending refresh with a mapping of layers, clips
\* and duration, and the listener has read them from the cache
C16_Witness ==
  /\ lastOp = "invoke_project_state"
  /\ input = PyList(<<StateNoFps>>)
  /\ prevPending
  /\ heard # NoValue
  /\ heard.val["layers"] = FullField("layers")
  /\ heard.val["clips"] = FullField("clips")

\* whether the step completes a get_timeline_info call: without a page at
\* once, with one when loop.exec() returns
Completes ==
  \/ lastOp' = "get_timeline_info" /\ ~page
  \/ lastOp' = "loop_exec_return" /\ Len(evals') < Len(evals)

\* what _evaluate_js returned to the get_timeline_info call the step completes
Fetched ==
  IF lastOp' = "loop_exec_return"
    THEN ConvertVariant(evals[Len(evals)].value)
    ELSE PyNone

Wrapped(project) == PyDict([k \in {"project"} |-> project])

ReplacedBy(project) ==
  /\ latest_project_state' = project
  /\ \A k \in StateKeys :
       timeline_state'.val[k] = DictGet(project, k, ApplyDefault(k))
  /\ ~state_refresh_pending'

CacheUntouched ==
  /\ latest_project_state' = latest_project_state
  /\ timeline_state' = timeline_state
  /\ state_refresh_pending' = state_refresh_pending

\* C18, as claimed: a fetched mapping becomes the cached TimelineInfo and is
\* the value returned; the ProjectState cache is replaced exactly when the
\* fetched mapping itself embeds a mapping under project, and a fetched
\* mapping without a project leaves the ProjectState cache and PendingRefresh
\* unchanged.
C18_FetchedMappingCached ==
  [][(Completes /\ IsDict(Fetched)) =>
       /\ last_timeline_info' = Fetched
       /\ ret' = Fetched
       /\ IF HasKey(Fetched, "project") /\ IsDict(Fetched.val["project"])
            THEN ReplacedBy(Fetched.val["project"])
            ELSE CacheUntouched]_vars

\* C18, amended: a fetched mapping, with the cached ProjectState added under
\* project when the mapping has no key project and the cached ProjectState
\* is not empty, becomes the cached TimelineInfo and is the value returned;
\* when that mapping holds a mapping under project (embedded or added), the
\* ProjectState cache is replaced by it and PendingRefresh cleared; otherwise
\* the ProjectState cache and PendingRefresh are unchanged.
C18_FetchedMappingWithProject ==
  [][(Completes /\ IsDict(Fetched)) =>
       LET info == IF latest_project_state # EmptyDict /\ ~HasKey(Fetched, "project")
                     THEN DictSet(Fetched, "project", latest_project_state)
                     ELSE Fetched
       IN  /\ last_timeline_info' = info
           /\ ret' = info
           /\ raised' = "none"
           /\ IF HasKey(info, "project") /\ IsDict(info.val["project"])
                THEN ReplacedBy(info.val["project"])
                ELSE CacheUntouched]_vars

\* a fetch has returned a mapping without project while a ProjectState was
\* cached and a refresh pending: the mapping came back with the cached state
\* added and the flag was cleared
C18_Witness ==
  /\ lastOp = "loop_exec_return"
  /\ ret = DictSet(InfoPlain, "project", StateNoFps)
  /\ last_timeline_info = ret
  /\ latest_project_state = StateNoFps
  /\ prevPending /\ ~state_refresh_pending

\* a number's value in tenths, whether int or float
Tenths(x) == IF x.kind = "float" THEN x.val ELSE 10 * x.val

\* the den the caller of set_timeline_frame_rate gave: NoValue when the
\* mapping has none
GivenDen(fps) ==
  IF fps.kind = "tuple" THEN fps.val[2] ELSE DictGet(fps, "den", NoValue)

IsPairOrMapping(fps) == fps.kind = "tuple" \/ IsDict(fps)

\* the payload of the setFrameRate command the step transmitted
SentRate == sent[1].params[1]

\* C14, as claimed: for a (num, den) pair or a {num, den} mapping the
\* transmitted den is not 0: 1 for a den of 0 or a missing den, and any
\* non-zero den unchanged; a plain number is transmitted unmodified.
C14_DenUnchanged ==
  (lastOp = "set_timeline_frame_rate" /\ page) =>
    LET fps == input.val[1]
        den == GivenDen(fps)
    IN  IF IsPairOrMapping(fps)
          THEN /\ SentRate.val["den"].val # 0
               /\ (den \in {NoValue, PyNone} \/ Tenths(den) = 0) =>
                    SentRate.val["den"] = PyNum(1)
               /\ (den \notin {NoValue, PyNone} /\ Tenths(den) # 0) =>
                    Tenths(SentRate.val["den"]) = Tenths(den)
          ELSE Tenths(SentRate) = Tenths(fps)

\* C14, amended: for a (num, den) pair or a {num, den} mapping the
\* transmitted den is an integer different from 0: 1 for a den of 0 or a
\* missing den, any non-zero integer den unchanged, and a den that is no
\* integer cut to its integer part (1 when that part is 0); a plain number
\* is transmitted unmodified.
C14_DenNormalized ==
  (lastOp = "set_timeline_frame_rate" /\ page) =>
    LET fps == input.val[1]
        den == GivenDen(fps)
    IN  IF IsPairOrMapping(fps)
          THEN /\ SentRate.val["den"].kind = "num"
               /\ SentRate.val["den"].val # 0
               /\ (den \in {NoValue, PyNone} \/ Tenths(den) = 0) =>
                    SentRate.val["den"] = PyNum(1)
               /\ (den.kind = "num" /\ den.val # 0) => SentRate.val["den"] = den
               /\ (den.kind = "float" /\ den.val # 0) =>
                    LET size == IF den.val < 0 THEN -den.val ELSE den.val
                    IN  \E whole \in 0..size :
                          /\ 10 * whole <= size /\ size < 10 * whole + 10
                          /\ SentRate.val["den"].val =
                               IF whole = 0 THEN 1
                               ELSE IF den.val < 0 THEN -whole ELSE whole
          ELSE Tenths(SentRate) = Tenths(fps)

\* the mapping {num: 5, den: 0} was given and den 1 transmitted
C14_Witness ==
  /\ lastOp = "set_timeline_frame_rate"
  /\ input = PyList(<<Fps(5, 0)>>)
  /\ sent = <<Script("setFrameRate", <<Fps(5, 1)>>)>>

\* nothing is under way between the bridge and the UI surface: no deferred
\* task to run, no command to run, no callback to process
Settled ==
  /\ surface.tracked
  /\ tasks = 0
  /\ surface.inbox = <<>>
  /\ surface.outbox = <<>>

\* C20: with a UI surface that runs the commands in the order received and
\* answers every emitProjectState with its state at that moment, every
\* mutating command is followed by an emitProjectState: once the host has
\* stopped and nothing is under way any more, the cached ProjectState holds
\* the clips of the UI surface's final state.
C20_SettledIsConsistent ==
  Settled => timeline_state.val["clips"] = SurfaceState(surface.edits).val["clips"]

\* C21: in every reachable state the cached ProjectState holds a frame rate
\* that is a rational with a non-zero denominator: a mapping with a num and a
\* den that are numbers, the den not zero, whatever the payloads of the
\* project_state callbacks, set_project_state calls and get_timeline_info
\* calls were.
C21_FrameRateRational ==
  LET fps == timeline_state.val["fps"]
  IN  /\ IsDict(fps)
      /\ HasKey(fps, "num") /\ fps.val["num"].kind \in {"num", "float"}
      /\ HasKey(fps, "den") /\ fps.val["den"].kind \in {"num", "float"}
      /\ fps.val["den"].val # 0

====
